---- MODULE Spec2Model ----
(***************************************************************************)
(* RecordingService of very-lite-camera, the recording session controller, *)
(* and MainActivity, which sends it the Start and Stop commands, as        *)
(* emitted by setup_project.py and by the second installer script.         *)
(*                                                                         *)
(* Spec is the service under every sequence of commands; AppSpec is the    *)
(* application, in which the commands come from MainActivity only.         *)
(*                                                                         *)
(* All service callbacks (onCreate, onStartCommand, onDestroy) and the     *)
(* beep Runnable run on the main looper, so every handler is one atomic    *)
(* step.  The MediaRecorder calls are the capture device; each of them may *)
(* return or raise, and which one raises is an input of the step.          *)
(***************************************************************************)
EXTENDS Integers, Sequences, FiniteSets, TLC

\* ---- bounds of the model ------------------------------------------------
MaxRecorders == 2       \* MediaRecorder instances constructed in one run
MaxClock == 4           \* clock steps taken in one run

\* ---- program constants --------------------------------------------------
BEEP_INTERVAL_MS == 30000

\* the model's clock advances in half beep intervals
ClockStepMs == BEEP_INTERVAL_MS \div 2

ACTION_START_RECORDING == "com.lowquality.videorecorder.START_RECORDING"
ACTION_STOP_RECORDING == "com.lowquality.videorecorder.STOP_RECORDING"
NoAction == "null"

\* the two versions of the installer script
Variants == {"setup_project", "part_000"}

\* MainActivity.REQUIRED_PERMISSIONS
REQUIRED_PERMISSIONS ==
    {"CAMERA", "RECORD_AUDIO", "WRITE_EXTERNAL_STORAGE", "READ_EXTERNAL_STORAGE"}

\* the permissions the user may leave granted when answering the request
GrantChoices == {{}, {"CAMERA", "RECORD_AUDIO"}, REQUIRED_PERMISSIONS}

\* null for the service's nullable fields
Null == 0
NoFile == <<>>
NoStatus == "none"

\* what beepRunnable.run()'s playBeep() does: sound the cue, or raise
TickOutcomes == {"none", "beep"}

\* where stopRecording's device calls raise: stop(), reset(), or nowhere
\* (MediaRecorder.release() declares no failure)
StopOutcomes == {"stop", "reset", "ok"}

\* the calls a handler makes on a MediaRecorder; "!" marks the one that raised
DeviceCalls ==
    {"new", "new!", "configure", "configure!", "prepare", "prepare!",
     "start", "start!", "stop", "stop!", "reset", "reset!", "release"}

\* the status reports of the spec's StatusPresenter
StatusReports ==
    {"report:Recording", "report:Idle", "report:Error(PermissionDenied)",
     "report:Error(ResourceUnavailable)", "report:Error(ConfigurationRejected)",
     "report:Error(FinalizeFailed)"}

VARIABLES
    variant,        \* which script emitted the service
    alive,          \* a service instance exists (between onCreate and onDestroy)
    mediaRecorder,  \* RecordingService.mediaRecorder: Null or a recorder id
    toneGenerator,  \* RecordingService.toneGenerator is non-null
    beepRunnable,   \* RecordingService.beepRunnable: Null or a runnable id
    isRecording,    \* RecordingService.isRecording
    outputFile,     \* RecordingService.outputFile: NoFile or a file name
    stopRequested,  \* stopSelf() was called on this instance
    notification,   \* the status last handed to startForeground, or NoStatus
    scheduled,      \* main looper queue: delayed posts [r, due] not yet run
    relCount,       \* per MediaRecorder constructed: release() invocations
    nRun,           \* Runnable objects constructed so far
    now,            \* clock, in milliseconds
    trace,          \* calls and reports made by the handler that ran last
    last,           \* which handler ran last, its inputs and the state before
    quiet,          \* a Stop command returned and no start succeeded since
    activity,       \* the MainActivity instance: its fields and lifecycle
    granted         \* the permissions the platform holds granted to the app

vars == <<variant, alive, mediaRecorder, toneGenerator, beepRunnable,
          isRecording, outputFile, stopRequested, notification, scheduled,
          relCount, nRun, now, trace, last, quiet, activity, granted>>

\* ---- pure helpers -------------------------------------------------------

Digit(d) ==
    CASE d = 0 -> "0" [] d = 1 -> "1" [] d = 2 -> "2" [] d = 3 -> "3"
      [] d = 4 -> "4" [] d = 5 -> "5" [] d = 6 -> "6" [] d = 7 -> "7"
      [] d = 8 -> "8" [] d = 9 -> "9"

Pad2(n) == <<Digit((n \div 10) % 10), Digit(n % 10)>>

\* SimpleDateFormat("yyyyMMdd_HHmmss").format(Date()) for a wall clock that is
\* t milliseconds after midnight of 2024-01-01
FormatTimestamp(t) ==
    LET s == t \div 1000
    IN  <<"2", "0", "2", "4", "0", "1", "0", "1", "_">>
        \o Pad2(s \div 3600) \o Pad2((s \div 60) % 60) \o Pad2(s % 60)

\* the Kotlin string template "VID_$timestamp.mp4"; the second script writes
\* it as "VID_\$timestamp.mp4" in a non-raw Python string, which reaches the
\* Kotlin file with the backslash and so is the literal text
FileName(v, t) ==
    IF v = "setup_project"
    THEN <<"V", "I", "D", "_">> \o FormatTimestamp(t) \o <<".", "m", "p", "4">>
    ELSE <<"V", "I", "D", "_", "$", "t", "i", "m", "e", "s", "t", "a", "m", "p",
           ".", "m", "p", "4">>

\* the service's fields and what it acts on, as one record
Svc ==
    [mediaRecorder |-> mediaRecorder, toneGenerator |-> toneGenerator,
     beepRunnable |-> beepRunnable, isRecording |-> isRecording,
     outputFile |-> outputFile, stopRequested |-> stopRequested,
     notification |-> notification, scheduled |-> scheduled, relCount |-> relCount, nRun |-> nRun,
     trace |-> <<>>]

Log(s, e) == [s EXCEPT !.trace = Append(@, e)]

\* a raise left the handler: no catch block encloses the call
Raised(s) == Log(s, "uncaught")

\* MediaRecorder instances on which release() was never invoked
Unreleased(rc) == {r \in 1..Len(rc) : rc[r] = 0}
Held == Unreleased(relCount)

\* ---- RecordingService ---------------------------------------------------

\* startBeepTimer with handler.post in place of postDelayed
startBeepTimerImmediate(s, t) ==
    LET id == s.nRun + 1
    IN  Log([s EXCEPT !.nRun = id,
                      !.beepRunnable = id,
                      !.scheduled = @ \cup {[r |-> id, due |-> t]}],
            "postDelayed")

startBeepTimer(s, t) ==
    LET id == s.nRun + 1
    IN  Log([s EXCEPT !.nRun = id,
                      !.beepRunnable = id,
                      !.scheduled = @ \cup {[r |-> id, due |-> t + BEEP_INTERVAL_MS]}],
            "postDelayed")

\* stopBeepTimer that forgets the runnable without removeCallbacks
stopBeepTimerNoRemove(s) == [s EXCEPT !.beepRunnable = Null]

stopBeepTimer(s) ==
    IF s.beepRunnable # Null
    THEN Log([s EXCEPT !.scheduled = {e \in @ : e.r # s.beepRunnable},
                       !.beepRunnable = Null],
             "removeCallbacks")
    ELSE [s EXCEPT !.beepRunnable = Null]

\* stopRecording without "mediaRecorder = null" after release()
stopRecordingKeepsField(s, so) ==
    LET s1 == stopBeepTimer(s)
        m == s1.mediaRecorder
    IN  IF m = Null
        THEN [s1 EXCEPT !.isRecording = FALSE]
        ELSE CASE so = "stop" -> Log(s1, "stop!")
               [] so = "reset" -> Log(Log(s1, "stop"), "reset!")
               [] so = "ok" ->
                    [Log(Log(Log(s1, "stop"), "reset"), "release")
                        EXCEPT !.relCount[m] = @ + 1,
                               !.isRecording = FALSE]

\* stopRecording with stopBeepTimer() after the apply block, where a raise of
\* stop() or reset() skips it
stopRecordingTimerLast(s, so) ==
    LET m == s.mediaRecorder
    IN  IF m = Null
        THEN [stopBeepTimer(s) EXCEPT !.mediaRecorder = Null, !.isRecording = FALSE]
        ELSE CASE so = "stop" -> Log(s, "stop!")
               [] so = "reset" -> Log(Log(s, "stop"), "reset!")
               [] so = "ok" ->
                    [stopBeepTimer(Log(Log(Log(s, "stop"), "reset"), "release"))
                        EXCEPT !.relCount[m] = @ + 1,
                               !.mediaRecorder = Null,
                               !.isRecording = FALSE]

\* stopRecording that insists on a recorder ("mediaRecorder!!"): without one
\* it raises before the assignments and reports the failure
stopRecordingRequiresRecorder(s, so) ==
    LET s1 == stopBeepTimer(s)
        m == s1.mediaRecorder
    IN  IF m = Null
        THEN Log(s1, "report:Error(FinalizeFailed)")
        ELSE CASE so = "stop" -> Log(s1, "stop!")
               [] so = "reset" -> Log(Log(s1, "stop"), "reset!")
               [] so = "ok" ->
                    [Log(Log(Log(s1, "stop"), "reset"), "release")
                        EXCEPT !.relCount[m] = @ + 1,
                               !.mediaRecorder = Null,
                               !.isRecording = FALSE]

\* stopRecording without its try/catch: a raise of stop() or reset() leaves it
stopRecordingNoCatch(s, so) ==
    LET s1 == stopBeepTimer(s)
        m == s1.mediaRecorder
    IN  IF m = Null
        THEN [s1 EXCEPT !.mediaRecorder = Null, !.isRecording = FALSE]
        ELSE CASE so = "stop" -> Raised(Log(s1, "stop!"))
               [] so = "reset" -> Raised(Log(Log(s1, "stop"), "reset!"))
               [] so = "ok" ->
                    [Log(Log(Log(s1, "stop"), "reset"), "release")
                        EXCEPT !.relCount[m] = @ + 1,
                               !.mediaRecorder = Null,
                               !.isRecording = FALSE]

\* stopRecording that stops the recorder first and cancels the timer next
stopRecordingTimerAfterStop(s, so) ==
    LET m == s.mediaRecorder
    IN  IF m = Null
        THEN [stopBeepTimer(s) EXCEPT !.mediaRecorder = Null, !.isRecording = FALSE]
        ELSE CASE so = "stop" -> Log(s, "stop!")
               [] so = "reset" -> Log(stopBeepTimer(Log(s, "stop")), "reset!")
               [] so = "ok" ->
                    [Log(Log(stopBeepTimer(Log(s, "stop")), "reset"), "release")
                        EXCEPT !.relCount[m] = @ + 1,
                               !.mediaRecorder = Null,
                               !.isRecording = FALSE]

\* stopRecording without the stopBeepTimer() call
stopRecordingLeavesTimer(s, so) ==
    LET m == s.mediaRecorder
    IN  IF m = Null
        THEN [s EXCEPT !.mediaRecorder = Null, !.isRecording = FALSE]
        ELSE CASE so = "stop" -> Log(s, "stop!")
               [] so = "reset" -> Log(Log(s, "stop"), "reset!")
               [] so = "ok" ->
                    [Log(Log(Log(s, "stop"), "reset"), "release")
                        EXCEPT !.relCount[m] = @ + 1,
                               !.mediaRecorder = Null,
                               !.isRecording = FALSE]

\* so: which device call of the apply block raises
stopRecording(s, so) ==
    LET s1 == stopBeepTimer(s)
        m == s1.mediaRecorder
    IN  IF m = Null
        THEN [s1 EXCEPT !.mediaRecorder = Null, !.isRecording = FALSE]
        ELSE CASE so = "stop" -> Log(s1, "stop!")
               [] so = "reset" -> Log(Log(s1, "stop"), "reset!")
               [] so = "ok" ->
                    [Log(Log(Log(s1, "stop"), "reset"), "release")
                        EXCEPT !.relCount[m] = @ + 1,
                               !.mediaRecorder = Null,
                               !.isRecording = FALSE]

\* startRecording that sets isRecording before the device calls instead of
\* after start() has returned
startRecordingFlagFirst(s, v, t, fo, so) ==
    LET s1 == [s EXCEPT !.outputFile = FileName(v, t), !.isRecording = TRUE]
        id == Len(s.relCount) + 1
        s2 == Log([s1 EXCEPT !.relCount = Append(@, 0), !.mediaRecorder = id],
                  "new")
    IN  CASE fo = "new" -> stopRecording(Log(s1, "new!"), so)
          [] fo = "config" -> stopRecording(Log(s2, "configure!"), so)
          [] fo = "prepare" ->
                stopRecording(Log(Log(s2, "configure"), "prepare!"), so)
          [] fo = "start" ->
                stopRecording(Log(Log(Log(s2, "configure"), "prepare"), "start!"), so)
          [] fo = "none" ->
                LET s3 == Log(Log(Log(s2, "configure"), "prepare"), "start")
                IN  Log([startBeepTimer(s3, t) EXCEPT !.notification = "Recording"],
                        "report:Recording")

\* fo: which device call of the try block raises; so: as for stopRecording,
\* for the stopRecording() of the catch block
startRecording(s, v, t, fo, so) ==
    LET s1 == [s EXCEPT !.outputFile = FileName(v, t)]
        id == Len(s.relCount) + 1
        s2 == Log([s1 EXCEPT !.relCount = Append(@, 0), !.mediaRecorder = id],
                  "new")
    IN  CASE fo = "new" -> stopRecording(Log(s1, "new!"), so)
          [] fo = "config" -> stopRecording(Log(s2, "configure!"), so)
          [] fo = "prepare" ->
                stopRecording(Log(Log(s2, "configure"), "prepare!"), so)
          [] fo = "start" ->
                stopRecording(Log(Log(Log(s2, "configure"), "prepare"), "start!"), so)
          [] fo = "none" ->
                LET s3 == Log(Log(Log(s2, "configure"), "prepare"), "start")
                    s4 == [s3 EXCEPT !.isRecording = TRUE]
                IN  Log([startBeepTimer(s4, t) EXCEPT !.notification = "Recording"],
                        "report:Recording")

\* onStartCommand without the "if (!isRecording)" of the Start branch
onStartCommandNoGuard(s, a, v, t, fo, so) ==
    CASE a = ACTION_START_RECORDING -> startRecording(s, v, t, fo, so)
      [] a = ACTION_STOP_RECORDING ->
            [stopRecording(s, so) EXCEPT !.stopRequested = TRUE]
      [] OTHER -> s

onStartCommand(s, a, v, t, fo, so) ==
    CASE a = ACTION_START_RECORDING ->
            IF ~s.isRecording THEN startRecording(s, v, t, fo, so) ELSE s
      [] a = ACTION_STOP_RECORDING ->
            [stopRecording(s, so) EXCEPT !.stopRequested = TRUE]
      [] OTHER -> s

onDestroy(s, so) ==
    LET s1 == stopRecording(s, so)
    IN  IF s1.toneGenerator
        THEN Log([s1 EXCEPT !.toneGenerator = FALSE], "toneGenerator.release")
        ELSE s1

\* bo: whether startTone raises
playBeep(s, bo) ==
    IF s.toneGenerator
    THEN Log(s, IF bo = "beep" THEN "beep!" ELSE "beep")
    ELSE s

\* run() that treats a failed cue as a failed capture: it catches the raise of
\* playBeep and stops the recording
beepRunCatchStops(s, e, t, bo) ==
    LET s0 == [s EXCEPT !.scheduled = @ \ {e}]
        s1 == playBeep(s0, bo)
    IN  IF s.toneGenerator /\ bo = "beep"
        THEN stopRecording(s1, "ok")
        ELSE Log([s1 EXCEPT !.scheduled =
                      @ \cup {[r |-> e.r, due |-> t + BEEP_INTERVAL_MS]}],
                 "postDelayed")

\* the body of beepRunnable.run() for the runnable of the queue entry e, which
\* the looper has taken off its queue
beepRun(s, e, t, bo) ==
    LET s0 == [s EXCEPT !.scheduled = @ \ {e}]
        s1 == playBeep(s0, bo)
    IN  IF s.toneGenerator /\ bo = "beep"
        THEN Raised(s1)
        ELSE Log([s1 EXCEPT !.scheduled =
                      @ \cup {[r |-> e.r, due |-> t + BEEP_INTERVAL_MS]}],
                 "postDelayed")

\* an exception that leaves a handler on the main thread ends the process:
\* the service instance and the looper's queue are gone, nothing is released
Uncaught(s) == \E i \in 1..Len(s.trace) : s.trace[i] = "uncaught"
ProcessDeath(s) == [s EXCEPT !.scheduled = {}]

\* ---- MainActivity -------------------------------------------------------

\* no activity exists (the service taken by itself)
NoActivity ==
    [state |-> "none", isRecording |-> FALSE, listener |-> FALSE,
     seen |-> FALSE, started |-> FALSE, finished |-> FALSE, sent |-> NoAction]

\* a handler of the activity starts with no intent sent
Entered(a) == [a EXCEPT !.sent = NoAction]

\* g: the permissions granted when the check runs
allPermissionsGranted(g) == \A p \in REQUIRED_PERMISSIONS : p \in g

\* installs the record button's click listener
setupUI(a) == [a EXCEPT !.listener = TRUE]

\* seen records that allPermissionsGranted() returned true in this instance
MainActivity_onCreate(g) ==
    LET a == [state |-> "shown", isRecording |-> FALSE, listener |-> FALSE,
              seen |-> FALSE, started |-> FALSE, finished |-> FALSE,
              sent |-> NoAction]
    IN  IF allPermissionsGranted(g)
        THEN setupUI([a EXCEPT !.seen = TRUE])
        ELSE [a EXCEPT !.state = "asking"]

\* onRequestPermissionsResult that sets up the UI whatever the answer was
onRequestPermissionsResultAnyAnswer(a, g) ==
    setupUI([Entered(a) EXCEPT !.state = "shown",
                               !.seen = @ \/ allPermissionsGranted(g)])

\* the answer to the only request the activity makes
\* (REQUEST_CODE_PERMISSIONS); finished records the finish() call
onRequestPermissionsResult(a, g) ==
    LET a1 == [Entered(a) EXCEPT !.state = "shown"]
    IN  IF allPermissionsGranted(g)
        THEN setupUI([a1 EXCEPT !.seen = TRUE])
        ELSE [a1 EXCEPT !.finished = TRUE]

\* sent is the action of the intent handed to startForegroundService or
\* startService; started records that this instance sent a Start
MainActivity_startRecording(a) ==
    [a EXCEPT !.sent = ACTION_START_RECORDING, !.isRecording = TRUE,
              !.started = TRUE]

MainActivity_stopRecording(a) ==
    [a EXCEPT !.sent = ACTION_STOP_RECORDING, !.isRecording = FALSE]

\* a tap on btnRecord: the listener of setupUI, if one is installed
onClick(a) ==
    IF ~a.listener THEN Entered(a)
    ELSE IF a.isRecording
         THEN MainActivity_stopRecording(Entered(a))
         ELSE MainActivity_startRecording(Entered(a))

MainActivity_onDestroy(a) ==
    LET a1 == IF a.isRecording
              THEN MainActivity_stopRecording(Entered(a))
              ELSE Entered(a)
    IN  [a1 EXCEPT !.state = "destroyed"]

\* the end of the process takes the activity with it; no callback runs
Killed(a) == IF a.state = "none" THEN a ELSE [a EXCEPT !.state = "destroyed"]

\* ---- the state machine --------------------------------------------------

\* where startRecording's device calls raise: the MediaRecorder constructor
\* ("new"), a setter ("config"), prepare(), start(), or nowhere ("none")

\* the fields as the handler found them
Pre ==
    [isRecording |-> isRecording, mediaRecorder |-> mediaRecorder,
     beepRunnable |-> beepRunnable]

\* the record of a handler: which one, where its device calls raised, what
\* the permission check of the platform would have answered when it ran
Ran(op, fo, so, auth) ==
    [op |-> op, fo |-> fo, so |-> so, auth |-> auth, pre |-> Pre]

\* the outcomes of stopRecording's device calls that can be told apart: it
\* makes none when the field is null
StopInputs(m) == IF m = Null THEN {"ok"} ELSE StopOutcomes

\* the outcomes of a Start command that can be told apart: it makes no device
\* call when isRecording is set, and reaches the catch block only on a raise
StartInputs ==
    IF isRecording THEN {<<"none", "ok">>}
    ELSE {<<"none", "ok">>}
         \cup {<<"new", so>> : so \in StopInputs(mediaRecorder)}
         \cup {<<fo, so>> : fo \in {"config", "prepare", "start"}, so \in StopOutcomes}

Install(s) ==
    /\ mediaRecorder' = s.mediaRecorder
    /\ toneGenerator' = s.toneGenerator
    /\ beepRunnable' = s.beepRunnable
    /\ isRecording' = s.isRecording
    /\ outputFile' = s.outputFile
    /\ stopRequested' = s.stopRequested
    /\ notification' = s.notification
    /\ scheduled' = s.scheduled
    /\ relCount' = s.relCount
    /\ nRun' = s.nRun
    /\ trace' = s.trace

Init ==
    /\ variant \in Variants
    /\ alive = TRUE
    /\ mediaRecorder = Null
    /\ toneGenerator = TRUE
    /\ beepRunnable = Null
    /\ isRecording = FALSE
    /\ outputFile = NoFile
    /\ stopRequested = FALSE
    /\ notification = NoStatus
    /\ scheduled = {}
    /\ relCount = <<>>
    /\ nRun = 0
    /\ now = 0
    /\ trace = <<>>
    /\ last = Ran("Create", "none", "ok", TRUE)
    /\ quiet = FALSE
    /\ activity = NoActivity
    /\ granted = {}

\* Service.onCreate of a new instance, after the previous one was destroyed
OnCreate ==
    /\ ~alive
    /\ alive' = TRUE
    /\ last' = Ran("Create", "none", "ok", TRUE)
    /\ Install([Svc EXCEPT !.mediaRecorder = Null, !.toneGenerator = TRUE,
                           !.beepRunnable = Null, !.isRecording = FALSE,
                           !.outputFile = NoFile, !.stopRequested = FALSE])
    /\ UNCHANGED <<variant, now, quiet, activity, granted>>

\* onStartCommand for an intent with ACTION_START_RECORDING
DeliverStart(auth) ==
    \E in \in StartInputs :
         /\ Len(onStartCommand(Svc, ACTION_START_RECORDING, variant, now,
                                in[1], in[2]).relCount) <= MaxRecorders
         /\ Install(onStartCommand(Svc, ACTION_START_RECORDING, variant, now,
                                   in[1], in[2]))
         /\ last' = Ran("Start", in[1], in[2], auth)
         /\ quiet' = IF ~isRecording /\ in[1] = "none" THEN FALSE ELSE quiet

\* onStartCommand for an intent with ACTION_STOP_RECORDING
DeliverStop ==
    /\ \E so \in StopInputs(mediaRecorder) :
         /\ Install(onStartCommand(Svc, ACTION_STOP_RECORDING, variant, now, "none", so))
         /\ last' = Ran("Stop", "none", so, TRUE)
    /\ quiet' = TRUE

StartCommand ==
    /\ alive
    /\ \E auth \in BOOLEAN : DeliverStart(auth)
    /\ UNCHANGED <<variant, alive, now, activity, granted>>

StopCommand ==
    /\ alive
    /\ DeliverStop
    /\ UNCHANGED <<variant, alive, now, activity, granted>>

\* an intent without action (the START_STICKY redelivery)
NullCommand ==
    /\ alive
    /\ Install(onStartCommand(Svc, NoAction, variant, now, "none", "ok"))
    /\ last' = Ran("Null", "none", "ok", TRUE)
    /\ UNCHANGED <<variant, alive, now, quiet, activity, granted>>

OnDestroy ==
    /\ alive
    /\ alive' = FALSE
    /\ \E so \in StopInputs(mediaRecorder) :
         /\ Install(onDestroy(Svc, so))
         /\ last' = Ran("Destroy", "none", so, TRUE)
    /\ UNCHANGED <<variant, now, quiet, activity, granted>>

\* the outcomes of a tick that can be told apart: playBeep makes no call
\* when toneGenerator is null
TickInputs == IF toneGenerator THEN TickOutcomes ELSE {"none"}

\* the main looper runs a delayed post that is due
BeepTick ==
    /\ \E e \in scheduled, bo \in TickInputs :
         /\ e.due <= now
         /\ LET r == beepRun(Svc, e, now, bo)
            IN  /\ Install(IF Uncaught(r) THEN ProcessDeath(r) ELSE r)
                /\ alive' = (alive /\ ~Uncaught(r))
                /\ activity' = IF Uncaught(r) THEN Killed(activity) ELSE activity
         /\ last' = Ran("Tick", bo, "ok", TRUE)
    /\ UNCHANGED <<variant, now, quiet, granted>>

Advance ==
    /\ now < MaxClock * ClockStepMs
    /\ now' = now + ClockStepMs
    /\ UNCHANGED <<variant, alive, mediaRecorder, toneGenerator, beepRunnable,
                   isRecording, outputFile, stopRequested, notification,
                   scheduled, relCount, nRun, trace, last, quiet, activity,
                   granted>>

Next ==
    \/ OnCreate
    \/ StartCommand
    \/ StopCommand
    \/ NullCommand
    \/ OnDestroy
    \/ BeepTick
    \/ Advance

Spec == Init /\ [][Next]_vars

\* ---- the application: MainActivity and the service ----------------------

\* the service's variables that a step of the activity alone leaves as they
\* are
serviceVars ==
    <<mediaRecorder, toneGenerator, beepRunnable, isRecording, outputFile,
      stopRequested, notification, scheduled, relCount, nRun, trace, last,
      quiet>>

\* the launcher has started MainActivity and its onCreate has run; no service
\* instance exists before the first command
AppInit ==
    /\ variant \in Variants
    /\ alive = FALSE
    /\ mediaRecorder = Null
    /\ toneGenerator = FALSE
    /\ beepRunnable = Null
    /\ isRecording = FALSE
    /\ outputFile = NoFile
    /\ stopRequested = FALSE
    /\ notification = NoStatus
    /\ scheduled = {}
    /\ relCount = <<>>
    /\ nRun = 0
    /\ now = 0
    /\ trace = <<>>
    /\ last = Ran("None", "none", "ok", TRUE)
    /\ quiet = FALSE
    /\ granted \in GrantChoices
    /\ activity = MainActivity_onCreate(granted)

\* the user starts the activity again
ActivityCreate ==
    /\ activity.state = "destroyed"
    /\ activity' = MainActivity_onCreate(granted)
    /\ UNCHANGED <<variant, alive, now, granted>>
    /\ UNCHANGED serviceVars

\* the user answers the permission request
PermissionResult ==
    /\ activity.state = "asking"
    /\ \E g \in GrantChoices :
         /\ granted' = g
         /\ activity' = onRequestPermissionsResult(activity, g)
    /\ UNCHANGED <<variant, alive, now>>
    /\ UNCHANGED serviceVars

\* the intent the activity handed to startForegroundService or startService
\* reaches the service's onStartCommand; the platform has created the
\* service before (OnCreate)
Dispatch(a) ==
    IF a.sent = ACTION_START_RECORDING
    THEN alive /\ DeliverStart(allPermissionsGranted(granted))
    ELSE IF a.sent = ACTION_STOP_RECORDING
         THEN alive /\ DeliverStop
         ELSE UNCHANGED serviceVars

\* a tap on the record button, and the service's handling of the intent sent
ClickRecord ==
    /\ activity.state = "shown"
    /\ activity' = onClick(activity)
    /\ Dispatch(onClick(activity))
    /\ UNCHANGED <<variant, alive, now, granted>>

\* the activity is destroyed: back key, or the finish() of a denied request
ActivityDestroy ==
    /\ activity.state \in {"asking", "shown"}
    /\ activity' = MainActivity_onDestroy(activity)
    /\ Dispatch(MainActivity_onDestroy(activity))
    /\ UNCHANGED <<variant, alive, now, granted>>

\* the stopSelf() of a Stop command ends the service
StopSelf == stopRequested /\ OnDestroy

AppNext ==
    \/ ActivityCreate
    \/ PermissionResult
    \/ ClickRecord
    \/ ActivityDestroy
    \/ OnCreate
    \/ StopSelf
    \/ BeepTick
    \/ Advance

AppSpec == AppInit /\ [][AppNext]_vars

\* ---- the claims ---------------------------------------------------------

\* a step is the run of a handler exactly if the clock stands still (Advance
\* is the only other action); last' then names the handler that ran
StartStep == now' = now /\ last'.op = "Start"
StopStep == now' = now /\ last'.op = "Stop"
TickStep == now' = now /\ last'.op = "Tick"

Reports(tr) == SelectSeq(tr, LAMBDA e : e \in StatusReports)
CallsMade(tr) == SelectSeq(tr, LAMBDA e : e \in DeviceCalls)

\* the recorder a failed startRecording constructed: the newest one, unless
\* the constructor itself raised
CreatedBy(fo) == IF fo = "new" THEN {} ELSE {Len(relCount)}

\* C1: once a Start or Stop command has returned, at most one MediaRecorder
\* is unreleased, and one is unreleased exactly if isRecording is set.
C1_HeldIffActive ==
    last.op \in {"Start", "Stop"} =>
        /\ Cardinality(Held) <= 1
        /\ (Held # {}) <=> isRecording

\* C2: when a Start command whose device calls raised has returned,
\* isRecording is unset, the mediaRecorder field is null and the recorder the
\* attempt constructed has been released.
C2_FailedStartHoldsNothing ==
    (last.op = "Start" /\ ~last.pre.isRecording /\ last.fo # "none") =>
        /\ ~isRecording
        /\ mediaRecorder = Null
        /\ \A r \in CreatedBy(last.fo) : relCount[r] = 1

\* C3: when a Stop command has returned, whether or not stop() or reset()
\* raised, isRecording is unset, the mediaRecorder field is null, the recorder
\* it held was released, and no beep callback is scheduled.
C3_StopLeavesNothing ==
    last.op = "Stop" =>
        /\ ~isRecording
        /\ mediaRecorder = Null
        /\ last.pre.mediaRecorder # Null => relCount[last.pre.mediaRecorder] = 1
        /\ beepRunnable = Null
        /\ scheduled = {}

\* C4: release() is invoked at most once on every MediaRecorder, over all
\* sequences of Start, Stop and onDestroy and all outcomes of the calls.
C4_ReleasedAtMostOnce ==
    \A r \in 1..Len(relCount) : relCount[r] <= 1

\* a Stop command released the recorder, then onDestroy ran stopRecording again
C4_Witness ==
    /\ last.op = "Destroy"
    /\ stopRequested
    /\ last.pre.mediaRecorder = Null
    /\ \E r \in 1..Len(relCount) : relCount[r] = 1

\* C5: no beep callback runs between the return of a Stop command and the
\* next successful start, also when the stop's stop() or reset() raised.
C5_NoTickAfterStop ==
    last.op = "Tick" => ~quiet

\* a Stop command met a scheduled timer and a raising stop(); the recording
\* had started at time 0 and the cancelled callback's due time has passed
C5_Witness ==
    /\ last.op = "Stop"
    /\ last.pre.beepRunnable # Null
    /\ last.so # "ok"
    /\ quiet
    /\ variant = "setup_project"
    /\ outputFile = FileName(variant, 0)
    /\ now > BEEP_INTERVAL_MS

\* C6: a Start command delivered while isRecording is set changes no field,
\* constructs no recorder, schedules nothing and makes no call or report.
C6_StartWhileActiveIsNoOp ==
    [][(StartStep /\ isRecording) =>
          /\ UNCHANGED <<mediaRecorder, toneGenerator, beepRunnable, isRecording,
                         outputFile, stopRequested, scheduled, relCount, nRun>>
          /\ trace' = <<>>]_vars

\* a Start command was ignored at a later time than the running recording's
C6_Witness ==
    /\ last.op = "Start"
    /\ last.pre.isRecording
    /\ variant = "setup_project"
    /\ outputFile # FileName(variant, now)
    /\ Cardinality(Held) = 1
    /\ Cardinality(scheduled) = 1

\* C7: a Stop command delivered with isRecording unset, no recorder in the
\* field and no timer leaves isRecording, the recorder, the timer and the
\* output file as they were, makes no device call and reports at most Idle.
C7_StopWhenIdleIsNoOp ==
    [][(StopStep /\ ~isRecording /\ mediaRecorder = Null /\ beepRunnable = Null) =>
          /\ UNCHANGED <<mediaRecorder, beepRunnable, isRecording, outputFile,
                         scheduled, relCount>>
          /\ CallsMade(trace') = <<>>
          /\ Reports(trace') \in {<<>>, <<"report:Idle">>}]_vars

\* a Stop command ran in the idle state that follows a start and a stop
C7_Witness ==
    /\ last.op = "Stop"
    /\ ~last.pre.isRecording
    /\ last.pre.mediaRecorder = Null
    /\ last.pre.beepRunnable = Null
    /\ outputFile # NoFile
    /\ \E r \in 1..Len(relCount) : relCount[r] = 1

\* C8: after onDestroy of a service with isRecording set, the recorder it
\* held has been released, the field is null and no beep callback is
\* scheduled.
C8_DestroyReleases ==
    (last.op = "Destroy" /\ last.pre.isRecording) =>
        /\ mediaRecorder = Null
        /\ last.pre.mediaRecorder # Null => relCount[last.pre.mediaRecorder] = 1
        /\ beepRunnable = Null
        /\ scheduled = {}

\* C9: a Start command delivered to an idle service while the permissions
\* are not granted constructs no recorder, leaves isRecording unset and the
\* timer off, and reports exactly Error(PermissionDenied).
C9_UnauthorizedStartDenied ==
    (last.op = "Start" /\ ~last.auth /\ ~last.pre.isRecording) =>
        /\ CallsMade(trace) = <<>>
        /\ ~isRecording
        /\ beepRunnable = Null
        /\ Reports(trace) = <<"report:Error(PermissionDenied)">>

\* C10: a Start command delivered with isRecording unset and permissions
\* granted, whose device calls all return, leaves isRecording set, exactly
\* one unreleased recorder (the one in the field), exactly one scheduled beep
\* callback, and has reported exactly Recording.
C10_SuccessfulStart ==
    (last.op = "Start" /\ ~last.pre.isRecording /\ last.auth /\ last.fo = "none") =>
        /\ isRecording
        /\ Held = {mediaRecorder}
        /\ beepRunnable # Null
        /\ Cardinality(scheduled) = 1
        /\ Reports(trace) = <<"report:Recording">>

ErrorReports ==
    {"report:Error(PermissionDenied)", "report:Error(ResourceUnavailable)",
     "report:Error(ConfigurationRejected)", "report:Error(FinalizeFailed)"}

\* C11: when a Start command whose acquisition raised has returned, it has
\* reported an Error status, isRecording is unset and no MediaRecorder is
\* left unreleased.
C11_FailedStartReportsError ==
    (last.op = "Start" /\ ~last.pre.isRecording /\ last.fo # "none") =>
        /\ \E i \in 1..Len(trace) : trace[i] \in ErrorReports
        /\ ~isRecording
        /\ Held = {}

\* C12: a Stop command delivered with isRecording set has reported Idle, or
\* the error of the failed stop, when it returns; and if it leaves
\* isRecording unset the status shown last is not Recording.
C12_StopReportsIdle ==
    (last.op = "Stop" /\ last.pre.isRecording) =>
        /\ Reports(trace) \in
              {<<"report:Idle">>, <<"report:Error(FinalizeFailed)">>}
        /\ ~isRecording => notification # "Recording"

\* the clock values of the model
ClockTimes == {k * ClockStepMs : k \in 0..MaxClock}

\* the name the contract gives a recording started at time t
ContractName(t) ==
    <<"V", "I", "D", "_">> \o FormatTimestamp(t) \o <<".", "m", "p", "4">>

\* C13: every start names the output file VID_<yyyyMMdd_HHmmss>.mp4 from the
\* time of the start, so that a start at another second has another name,
\* in both versions of the service.
C13_NameFromTimestamp ==
    [][(StartStep /\ ~isRecording) =>
          /\ outputFile' = ContractName(now)
          /\ \A t \in ClockTimes :
                 (t \div 1000 # now \div 1000) => FileName(variant, t) # outputFile']_vars

Has(tr, ev) == \E i \in 1..Len(tr) : tr[i] = ev

\* C14: at most one beep callback is scheduled in every state, and it is the
\* one the beepRunnable field refers to.
C14_OneTimerToken ==
    /\ Cardinality(scheduled) <= 1
    /\ \A e \in scheduled : e.r = beepRunnable

\* the timer of a second recording has ticked and is scheduled again
C14_Witness ==
    /\ last.op = "Tick"
    /\ nRun >= 2
    /\ \E e \in scheduled : e.r = nRun

\* C15: whenever isRecording is set after a command has returned, exactly
\* one beep callback is scheduled, also after a Stop whose stop() raised.
C15_ActiveHasTimer ==
    (last.op \in {"Start", "Stop", "Null"} /\ isRecording) =>
        /\ beepRunnable # Null
        /\ Cardinality(scheduled) = 1

\* C16: a successful start sounds no cue and schedules the first tick one
\* BEEP_INTERVAL_MS after the start; a tick that leaves the session recording
\* schedules exactly one next tick one BEEP_INTERVAL_MS after itself.
C16_TickAfterFullInterval ==
    [][/\ (StartStep /\ ~isRecording /\ isRecording') =>
            /\ ~Has(trace', "beep")
            /\ scheduled' = {[r |-> beepRunnable', due |-> now + BEEP_INTERVAL_MS]}
       /\ (TickStep /\ alive' /\ isRecording') =>
            /\ scheduled' = {[r |-> beepRunnable, due |-> now + BEEP_INTERVAL_MS]}]_vars

\* a tick two intervals after time 0 has sounded and scheduled the next
C16_Witness ==
    /\ last.op = "Tick"
    /\ last.fo = "none"
    /\ alive /\ isRecording
    /\ Has(trace, "beep")
    /\ now >= 2 * BEEP_INTERVAL_MS
    /\ scheduled = {[r |-> beepRunnable, due |-> now + BEEP_INTERVAL_MS]}

\* C17: a tick whose playBeep raises lets nothing out of the callback, and
\* leaves the service running with isRecording and the recorder as before.
C17_TickFailureSwallowed ==
    (last.op = "Tick" /\ last.fo = "beep") =>
        /\ ~Has(trace, "uncaught")
        /\ alive
        /\ isRecording = last.pre.isRecording
        /\ mediaRecorder = last.pre.mediaRecorder

\* C18: no raise of a MediaRecorder call leaves a Start or Stop command,
\* also not a raise in the cleanup that follows a failed start.
C18_NothingEscapes ==
    last.op \in {"Start", "Stop"} => ~Has(trace, "uncaught")

\* prepare() raised in a start and stop() raised in its cleanup
C18_Witness ==
    /\ last.op = "Start"
    /\ CallsMade(trace) = <<"new", "configure", "prepare!", "stop!">>
    /\ alive

TeardownCalls == {"stop", "stop!", "reset", "reset!", "release"}

\* C19: in every handler the timer is cancelled before the first stop(),
\* reset() or release(): no removeCallbacks follows such a call, and a
\* handler that made one on finding a timer has cancelled it.
C19_TimerCancelledFirst ==
    /\ \A i, j \in 1..Len(trace) :
          (i < j /\ trace[i] \in TeardownCalls) => trace[j] # "removeCallbacks"
    /\ (last.pre.beepRunnable # Null /\ \E i \in 1..Len(trace) : trace[i] \in TeardownCalls)
          => (Has(trace, "removeCallbacks") /\ beepRunnable = Null /\ scheduled = {})

\* a Stop command cancelled a scheduled timer, then stopped and released
C19_Witness ==
    /\ last.op = "Stop"
    /\ trace = <<"removeCallbacks", "stop", "reset", "release">>

\* C20: a beep tick, whatever playBeep does, leaves mediaRecorder,
\* isRecording and outputFile as they were, releases nothing and makes no
\* call on a MediaRecorder.
C20_TickLeavesCapture ==
    [][TickStep =>
          /\ UNCHANGED <<mediaRecorder, isRecording, outputFile, relCount>>
          /\ CallsMade(trace') = <<>>]_vars

\* a tick ran while a recorder was held and recording
C20_Witness ==
    /\ last.op = "Tick"
    /\ isRecording
    /\ mediaRecorder \in Held
    /\ outputFile # NoFile

\* the MediaRecorder constructions a handler tried
Attempts(tr) == Len(SelectSeq(tr, LAMBDA e : e \in {"new", "new!"}))

C22_TimerImpliesActive ==
    (beepRunnable # Null \/ scheduled # {}) =>
        /\ isRecording
        /\ mediaRecorder # Null
        /\ mediaRecorder \in Held

\* the timer of a running recording is outstanding after a tick reposted it
C22_Witness ==
    /\ last.op = "Tick"
    /\ alive
    /\ beepRunnable # Null
    /\ \E e \in scheduled : e.r = beepRunnable /\ e.due > now

DestroyStep == now' = now /\ last'.op = "Destroy"

\* C23: the onDestroy that follows a Stop command, which runs stopRecording
\* a second time, leaves mediaRecorder, isRecording, beepRunnable, the
\* looper's queue and the release counts as the Stop command left them and
\* makes no call on a MediaRecorder.
C23_StopRecordingIdempotent ==
    [][(last.op = "Stop" /\ DestroyStep) =>
          /\ UNCHANGED <<mediaRecorder, isRecording, beepRunnable, scheduled,
                         relCount, outputFile>>
          /\ CallsMade(trace') = <<>>]_vars

\* C24: in the application, once the service has handled the Start or Stop
\* command of a click on the record button, MainActivity.isRecording equals
\* the service's isRecording.
C24_ActivityFlagFollowsService ==
    (last.op \in {"Start", "Stop"} /\ activity.state = "shown"
        /\ activity.sent # NoAction)
      => activity.isRecording = isRecording

\* C25: in the application, the click listener is installed only in an
\* activity whose allPermissionsGranted() returned true, a Start command is
\* sent only through that listener and handled only with every permission
\* granted, and an activity that called finish() on a denied request has sent
\* no Start.
C25_StartOnlyAfterGrant ==
    /\ activity.listener => activity.seen
    /\ activity.started => activity.listener
    /\ activity.finished => (~activity.started /\ ~activity.listener)
    /\ last.op = "Start" => (last.auth /\ allPermissionsGranted(granted))

\* the Start command of a click was handled and the recording runs, in an
\* activity that found every permission granted
C25_Witness ==
    /\ last.op = "Start"
    /\ activity.sent = ACTION_START_RECORDING
    /\ activity.started
    /\ activity.seen
    /\ isRecording
====
